---- MODULE Spec2Model ----
(***************************************************************************)
(* The CosmosDB policy adapter: the record codec (savePolicyLine,          *)
(* loadPolicyLine, policyID), the adapter's operations (LoadPolicy,        *)
(* LoadFilteredPolicy, SavePolicy, AddPolicy, RemovePolicy,                *)
(* RemoveFilteredPolicy) and the container they talk to.                   *)
(*                                                                         *)
(* A Go string is a sequence of one-character strings, so that key[:1],    *)
(* strings.Join and the comparison with "" are computed, not assumed.      *)
(***************************************************************************)
EXTENDS Integers, Sequences, FiniteSets, TLC

VARIABLES
    store,            \* the documents of the container (set of CasbinRule)
    containerExists,  \* whether the container exists in the database
    filtered,         \* adapter.filtered
    last,             \* the most recent call: operation, arguments, outcome
    cpc,              \* codec run: position
    cptype,           \* codec run: the policy type given to savePolicyLine
    crule,            \* codec run: the rule given to savePolicyLine
    cline,            \* codec run: the CasbinRule savePolicyLine returned
    cmodel            \* codec run: the model loadPolicyLine appends to

vars == <<store, containerExists, filtered, last, cpc, cptype, crule, cline, cmodel>>
adapterVars == <<store, containerExists, filtered, last>>
codecVars == <<cpc, cptype, crule, cline, cmodel>>

----------------------------------------------------------------------------
(* Strings *)

EmptyStr == <<>>
Comma == <<",">>
sP == <<"p">>
sP2 == <<"p", "2">>
sG == <<"g">>
sA == <<"a">>
sB == <<"b">>
sC == <<"c">>
sD == <<"d">>
sE == <<"e">>
sF == <<"f">>
sAcommaB == <<"a", ",", "b">>

\* strings.Join(elems, sep)
RECURSIVE Join(_, _)
Join(elems, sep) ==
    IF Len(elems) = 0 THEN EmptyStr
    ELSE IF Len(elems) = 1 THEN elems[1]
    ELSE elems[1] \o sep \o Join(Tail(elems), sep)

\* meow.Checksum(0, data) rendered by Sprintf("%x"): the digest is taken to be
\* collision-free on its input, so a digest is represented by the bytes hashed.
Checksum(data) == data

\* The number of value fields of a CasbinRule (V0..V5).
NumFields == 6

----------------------------------------------------------------------------
(* The record codec *)

policyID(ptype, rule) == Checksum(Join(<<ptype>> \o rule, Comma))

Field(rule, k) == IF Len(rule) > k THEN rule[k + 1] ELSE EmptyStr

savePolicyLine(ptype, rule) ==
    [ID |-> policyID(ptype, rule),
     PType |-> ptype,
     V0 |-> Field(rule, 0),
     V1 |-> Field(rule, 1),
     V2 |-> Field(rule, 2),
     V3 |-> Field(rule, 3),
     V4 |-> Field(rule, 4),
     V5 |-> Field(rule, 5)]

\* Tokens with the V5 step left out.
Tokens_WithoutV5(line) ==
    IF line.V0 = EmptyStr THEN <<>>
    ELSE IF line.V1 = EmptyStr THEN <<line.V0>>
    ELSE IF line.V2 = EmptyStr THEN <<line.V0, line.V1>>
    ELSE IF line.V3 = EmptyStr THEN <<line.V0, line.V1, line.V2>>
    ELSE IF line.V4 = EmptyStr THEN <<line.V0, line.V1, line.V2, line.V3>>
    ELSE <<line.V0, line.V1, line.V2, line.V3, line.V4>>

\* The non-empty fields among those given, in order.
RECURSIVE NonEmptyOf(_)
NonEmptyOf(fields) ==
    IF fields = <<>> THEN <<>>
    ELSE IF Head(fields) = EmptyStr THEN NonEmptyOf(Tail(fields))
    ELSE <<Head(fields)>> \o NonEmptyOf(Tail(fields))

\* Tokens that skips an empty field and goes on to the next one.
Tokens_SkipsGaps(line) ==
    NonEmptyOf(<<line.V0, line.V1, line.V2, line.V3, line.V4, line.V5>>)

\* The tokens loadPolicyLine has collected when it reaches LineEnd.
Tokens(line) ==
    IF line.V0 = EmptyStr THEN <<>>
    ELSE IF line.V1 = EmptyStr THEN <<line.V0>>
    ELSE IF line.V2 = EmptyStr THEN <<line.V0, line.V1>>
    ELSE IF line.V3 = EmptyStr THEN <<line.V0, line.V1, line.V2>>
    ELSE IF line.V4 = EmptyStr THEN <<line.V0, line.V1, line.V2, line.V3>>
    ELSE IF line.V5 = EmptyStr THEN <<line.V0, line.V1, line.V2, line.V3, line.V4>>
    ELSE <<line.V0, line.V1, line.V2, line.V3, line.V4, line.V5>>

\* key[:1] panics on the empty string; model[sec][key] is a nil *Assertion when
\* the model has no such section or key, and .Policy dereferences it.
loadPolicyLinePanics(line, model) ==
    \/ Len(line.PType) = 0
    \/ SubSeq(line.PType, 1, 1) \notin DOMAIN model
    \/ line.PType \notin DOMAIN model[SubSeq(line.PType, 1, 1)]

\* A model is model[sec][key] = the Policy list of that assertion.
loadPolicyLine(line, model) ==
    LET key == line.PType
        sec == SubSeq(key, 1, 1)
    IN  [model EXCEPT ![sec][key] = Append(@, Tokens(line))]

----------------------------------------------------------------------------
(* Bounds and inputs *)

\* The most documents AddPolicy lets the container grow to.
MaxStore == 2

\* The most items the store returns on one page of a query.
PageSize == 1

R_ab == <<sA, sB>>
R_acb == <<sAcommaB>>
R_gap == <<sA, EmptyStr, sB>>
R_six == <<sA, sB, sC, sD, sE, sF>>
R_none == <<>>

RuleInputs == {R_ab, R_acb, R_gap, R_six, R_none}
PTypeInputs == {sP, sG}

\* The sequences that list every element of the set S once.
RECURSIVE SeqsOf(_)
SeqsOf(S) ==
    IF S = {} THEN {<<>>}
    ELSE UNION {{<<x>> \o t : t \in SeqsOf(S \ {x})} : x \in S}

\* The model of a policy definition pkey in section "p" and "g" in section "g".
MkModel(pkey, pp, gp) ==
    [sec \in {sP, sG} |->
        IF sec = sP THEN [key \in {pkey} |-> pp] ELSE [key \in {sG} |-> gp]]

\* The models handed to SavePolicy: none holds a rule twice (the engine's model
\* holds a rule once).
ModelInputs ==
    {MkModel(sP, <<>>, <<>>),
     MkModel(sP, <<R_ab, R_six>>, <<>>),
     MkModel(sP, <<R_six, R_ab>>, <<>>),
     MkModel(sP, <<R_ab>>, <<R_ab>>),
     MkModel(sP, <<>>, <<R_six>>),
     MkModel(sP, <<R_ab, R_acb>>, <<>>),
     MkModel(sP, <<R_acb>>, <<>>),
     MkModel(sP, <<R_gap>>, <<R_none>>)}

\* The models handed to the loads: a fresh one, one that holds a rule, and one
\* that has no policy definition named "p".
LoadModelInputs ==
    {MkModel(sP, <<>>, <<>>), MkModel(sP, <<R_six>>, <<>>), MkModel(sP2, <<>>, <<>>)}

FreshModel(m) == [sec \in DOMAIN m |-> [key \in DOMAIN m[sec] |-> <<>>]]

----------------------------------------------------------------------------
(* The container: the calls the adapter makes on it *)

\* Whether the i-th store call of an operation fails: the environment fails
\* call f (0: none), and every call fails once the container is gone.
CallFails(exists, f, i) == f = i \/ ~exists

\* ContainerClient.CreateItem: a document of the same partition and id conflicts.
Conflicts(st, doc) == \E d \in st : d.PType = doc.PType /\ d.ID = doc.ID

\* ContainerClient.NewQueryItemsPager(query, partitionKey): the documents of one
\* logical partition that satisfy the query.
Partition(st, pk) == {d \in st : d.PType = pk}

\* The pages NextPage returns for n items: at least one, the last may be short.
NumPages(n) == IF n = 0 THEN 1 ELSE (n + PageSize - 1) \div PageSize

V(doc, k) ==
    CASE k = 0 -> doc.V0
      [] k = 1 -> doc.V1
      [] k = 2 -> doc.V2
      [] k = 3 -> doc.V3
      [] k = 4 -> doc.V4
      [] k = 5 -> doc.V5

NoArg == [none |-> TRUE]

Call(op, err, calls, arg) == [op |-> op, err |-> err, calls |-> calls, arg |-> arg]

Init ==
    /\ store = {}
    /\ containerExists = TRUE
    /\ filtered = FALSE
    /\ last = Call("NewAdapterFromClient", "nil", 0, NoArg)
    /\ cpc = "idle"
    /\ cptype = EmptyStr
    /\ crule = <<>>
    /\ cline = savePolicyLine(EmptyStr, <<>>)
    /\ cmodel = MkModel(sP, <<>>, <<>>)

----------------------------------------------------------------------------
(* AddPolicy, save, RemovePolicy *)

\* adapter.save: one CreateItem; an error of the call is returned as it is.
save(st, exists, f, i, policy) ==
    IF CallFails(exists, f, i) THEN [store |-> st, err |-> "ErrStore"]
    ELSE IF Conflicts(st, policy) THEN [store |-> st, err |-> "ErrConflict"]
    ELSE [store |-> st \cup {policy}, err |-> "nil"]

AddPolicy(ptype, rule, f) ==
    LET policy == savePolicyLine(ptype, rule)
        r == save(store, containerExists, f, 1, policy)
    IN  /\ Cardinality(r.store) <= MaxStore
        /\ store' = r.store
        /\ last' = Call("AddPolicy", r.err, 1, [ptype |-> ptype, rule |-> rule])
        /\ UNCHANGED <<containerExists, filtered, codecVars>>

\* ContainerClient.DeleteItem(partitionKey, id): the document of that partition
\* and id goes; there being none is an error (404).
DeleteItem(st, pk, id) == {d \in st : ~(d.PType = pk /\ d.ID = id)}

RemovePolicy(ptype, rule, f) ==
    LET policy == savePolicyLine(ptype, rule)
        found == \E d \in store : d.PType = policy.PType /\ d.ID = policy.ID
        err == IF CallFails(containerExists, f, 1) THEN "ErrStore"
               ELSE IF ~found THEN "ErrNotFound" ELSE "nil"
    IN  /\ store' = IF err = "nil" THEN DeleteItem(store, policy.PType, policy.ID) ELSE store
        /\ last' = Call("RemovePolicy", err, 1, [ptype |-> ptype, rule |-> rule])
        /\ UNCHANGED <<containerExists, filtered, codecVars>>

----------------------------------------------------------------------------
(* SavePolicy *)

\* dropCollection that creates the container without deleting it first.
dropCollection_KeepsItems(st, exists, f) ==
    IF CallFails(exists, f, 1)
    THEN [store |-> st, exists |-> exists, err |-> "ErrStore", calls |-> 1]
    ELSE [store |-> st, exists |-> TRUE, err |-> "nil", calls |-> 2]

\* adapter.dropCollection: call 1 deletes the container, call 2 creates it again.
dropCollection(st, exists, f) ==
    IF CallFails(exists, f, 1)
    THEN [store |-> st, exists |-> exists, err |-> "ErrStore", calls |-> 1]
    ELSE IF f = 2
    THEN [store |-> {}, exists |-> FALSE, err |-> "ErrStore", calls |-> 2]
    ELSE [store |-> {}, exists |-> TRUE, err |-> "nil", calls |-> 2]

\* The lines of one assertion: its rules, in order.
RECURSIVE AssertionLines(_, _)
AssertionLines(ptype, policy) ==
    IF policy = <<>> THEN <<>>
    ELSE <<savePolicyLine(ptype, Head(policy))>> \o AssertionLines(ptype, Tail(policy))

\* The lines of a section: its assertions in the order the map is ranged over.
RECURSIVE SectionLines(_, _, _)
SectionLines(model, sec, keys) ==
    IF keys = <<>> THEN <<>>
    ELSE AssertionLines(Head(keys), model[sec][Head(keys)])
            \o SectionLines(model, sec, Tail(keys))

KeyOrders(model, sec) ==
    IF sec \in DOMAIN model THEN SeqsOf(DOMAIN model[sec]) ELSE {<<>>}

\* The loop over lines: store call i is the CreateItem of the first line left.
RECURSIVE SaveLines(_, _, _, _, _)
SaveLines(st, exists, f, i, lines) ==
    IF lines = <<>> THEN [store |-> st, err |-> "nil", calls |-> i - 1]
    ELSE LET r == save(st, exists, f, i, Head(lines))
         IN  IF r.err # "nil" THEN [store |-> r.store, err |-> r.err, calls |-> i]
             ELSE SaveLines(r.store, exists, f, i + 1, Tail(lines))

\* SavePolicy without the check of a.filtered.
SavePolicyResult_NoFilterCheck(isFiltered, st, exists, model, pkeys, gkeys, f) ==
    LET d == dropCollection(st, exists, f)
        lines == SectionLines(model, sP, pkeys) \o SectionLines(model, sG, gkeys)
        r == SaveLines(d.store, d.exists, f, 3, lines)
    IN  IF d.err # "nil" THEN d
        ELSE [store |-> r.store, exists |-> d.exists, err |-> r.err, calls |-> r.calls]

\* SavePolicy as a whole: the store, the container and the error it ends with.
SavePolicyResult(isFiltered, st, exists, model, pkeys, gkeys, f) ==
    IF isFiltered
    THEN [store |-> st, exists |-> exists, err |-> "ErrFiltered", calls |-> 0]
    ELSE LET d == dropCollection(st, exists, f)
             lines == SectionLines(model, sP, pkeys) \o SectionLines(model, sG, gkeys)
             r == SaveLines(d.store, d.exists, f, 3, lines)
         IN  IF d.err # "nil" THEN d
             ELSE [store |-> r.store, exists |-> d.exists, err |-> r.err, calls |-> r.calls]

SavePolicy(model, pkeys, gkeys, f) ==
    LET r == SavePolicyResult(filtered, store, containerExists, model, pkeys, gkeys, f)
    IN  /\ store' = r.store
        /\ containerExists' = r.exists
        /\ last' = Call("SavePolicy", r.err, r.calls,
                        [model |-> model, fault |-> IF f \in 1..r.calls THEN f ELSE 0])
        /\ UNCHANGED <<filtered, codecVars>>

----------------------------------------------------------------------------
(* LoadPolicy, LoadFilteredPolicy *)

\* The pager loop: call i fetches page i; fk says what goes wrong on page f, the
\* call itself ("page") or json.Unmarshal of its first item ("item"). The lines
\* of the pages before it have been collected by then.
readLines(exists, items, f, fk) ==
    IF CallFails(exists, 0, 1)
    THEN [lines |-> <<>>, err |-> "ErrStore", calls |-> 1]
    ELSE IF f \in 1..NumPages(Len(items))
    THEN [lines |-> SubSeq(items, 1, (f - 1) * PageSize),
          err |-> IF fk = "item" THEN "ErrUnmarshal" ELSE "ErrStore",
          calls |-> f]
    ELSE [lines |-> items, err |-> "nil", calls |-> NumPages(Len(items))]

\* for _, line := range lines { loadPolicyLine(line, model) }: a panic of
\* loadPolicyLine ends the loop with the lines before it loaded.
RECURSIVE loadLines(_, _)
loadLines(lines, model) ==
    IF lines = <<>> THEN [model |-> model, err |-> "nil"]
    ELSE IF loadPolicyLinePanics(Head(lines), model) THEN [model |-> model, err |-> "panic"]
    ELSE loadLines(Tail(lines), loadPolicyLine(Head(lines), model))

\* Loads that decode the lines of each page as it arrives.
readAndLoad_DecodesAsItReads(exists, items, model, f, fk) ==
    LET r == readLines(exists, items, f, fk)
        l == loadLines(r.lines, model)
    IN  [model |-> l.model,
         err |-> IF l.err # "nil" THEN l.err ELSE r.err,
         calls |-> r.calls,
         linesRead |-> Len(r.lines)]

\* Both loads after their first lines: read every page, then decode.
readAndLoad(exists, items, model, f, fk) ==
    LET r == readLines(exists, items, f, fk)
        l == loadLines(r.lines, model)
    IN  IF r.err # "nil"
        THEN [model |-> model, err |-> r.err, calls |-> r.calls, linesRead |-> Len(r.lines)]
        ELSE [model |-> l.model, err |-> l.err, calls |-> r.calls, linesRead |-> Len(r.lines)]

\* The value adapter.filtered has when LoadPolicy returns.
LoadPolicyFiltered(before, err) == FALSE

LoadPolicy(model, items, f, fk) ==
    LET r == readAndLoad(containerExists, items, model, f, fk)
    IN  /\ items \in SeqsOf(Partition(store, sP))
        /\ filtered' = LoadPolicyFiltered(filtered, r.err)
        /\ last' = Call("LoadPolicy", r.err, r.calls,
                        [modelIn |-> model, model |-> r.model,
                         linesRead |-> r.linesRead])
        /\ UNCHANGED <<store, containerExists, codecVars>>

\* A filter argument: a SqlQuerySpec ("value"), a *SqlQuerySpec as Q builds it
\* ("pointer") or nil; its query is SELECT * FROM root WHERE root.v<field> = @v.
Filter(kind, field, value) == [kind |-> kind, field |-> field, value |-> value]

FilterInputs ==
    {Filter("value", 0, sA), Filter("value", 1, sB),
     Filter("pointer", 0, sA), Filter("nil", 0, EmptyStr)}

\* querySpec := filter.(SqlQuerySpec) panics unless the dynamic type is SqlQuerySpec.
AssertionPanics(filter) == filter.kind # "value"

\* LoadFilteredPolicy that sets a.filtered only when it returns nil.
LoadFilteredPolicyFiltered_OnSuccess(before, filter, err) ==
    IF err = "nil" THEN TRUE ELSE before

\* The value adapter.filtered has when LoadFilteredPolicy returns or panics.
LoadFilteredPolicyFiltered(before, filter, err) ==
    IF AssertionPanics(filter) THEN before ELSE TRUE

LoadFilteredPolicy(model, filter, items, f, fk) ==
    LET r == IF AssertionPanics(filter)
             THEN [model |-> model, err |-> "panic", calls |-> 0, linesRead |-> 0]
             ELSE readAndLoad(containerExists, items, model, f, fk)
    IN  /\ items \in SeqsOf({d \in Partition(store, sP) : V(d, filter.field) = filter.value})
        /\ filtered' = LoadFilteredPolicyFiltered(filtered, filter, r.err)
        /\ last' = Call("LoadFilteredPolicy", r.err, r.calls,
                        [modelIn |-> model, model |-> r.model, filter |-> filter,
                         linesRead |-> r.linesRead])
        /\ UNCHANGED <<store, containerExists, codecVars>>

----------------------------------------------------------------------------
(* RemoveFilteredPolicy *)

\* A slot that takes "" for a value to match.
SelectorSlot_MatchesEmpty(k, fieldIndex, fieldValues) ==
    IF fieldIndex <= k /\ k < fieldIndex + Len(fieldValues)
    THEN {<<k, fieldValues[(k - fieldIndex) + 1]>>}
    ELSE {}

\* One of the six ifs: slot k of the selector, when fieldValues covers slot k
\* with a value that is not "".
SelectorSlot(k, fieldIndex, fieldValues) ==
    IF fieldIndex <= k /\ k < fieldIndex + Len(fieldValues)
    THEN IF fieldValues[(k - fieldIndex) + 1] # EmptyStr
         THEN {<<k, fieldValues[(k - fieldIndex) + 1]>>}
         ELSE {}
    ELSE {}

\* selector: the (slot, value) pairs the six ifs leave in the map.
Selector(fieldIndex, fieldValues) ==
    SelectorSlot(0, fieldIndex, fieldValues) \cup SelectorSlot(1, fieldIndex, fieldValues)
        \cup SelectorSlot(2, fieldIndex, fieldValues) \cup SelectorSlot(3, fieldIndex, fieldValues)
        \cup SelectorSlot(4, fieldIndex, fieldValues) \cup SelectorSlot(5, fieldIndex, fieldValues)

\* WHERE root.pType = @pType AND root.v<k> = @v<k> for every entry of the selector.
Selected(doc, ptype, selector) ==
    /\ doc.PType = ptype
    /\ \A kv \in selector : V(doc, kv[1]) = kv[2]

\* The loop over the policies fetched: store call i deletes the first one left.
RECURSIVE DeleteEach(_, _, _, _, _)
DeleteEach(st, exists, f, i, policies) ==
    IF policies = <<>> THEN [store |-> st, err |-> "nil", calls |-> i - 1]
    ELSE IF CallFails(exists, f, i) THEN [store |-> st, err |-> "ErrStore", calls |-> i]
    ELSE DeleteEach(DeleteItem(st, Head(policies).PType, Head(policies).ID),
                    exists, f, i + 1, Tail(policies))

RemoveFilteredPolicyResult(st, exists, ptype, fieldIndex, fieldValues, items, f) ==
    LET r == readLines(exists, items, f, "page")
        d == DeleteEach(st, exists, f, r.calls + 1, r.lines)
    IN  IF r.err # "nil" THEN [store |-> st, err |-> r.err, calls |-> r.calls] ELSE d

\* The (fieldIndex, fieldValues) a caller passes.
FieldArg(fieldIndex, fieldValues) == [fieldIndex |-> fieldIndex, fieldValues |-> fieldValues]

FieldArgInputs ==
    {FieldArg(0, <<sA>>), FieldArg(1, <<sB>>), FieldArg(2, <<sB>>),
     FieldArg(0, <<sA, EmptyStr, EmptyStr, sD>>),
     FieldArg(0, <<sA, EmptyStr, EmptyStr, EmptyStr, EmptyStr, sF>>),
     FieldArg(0, <<EmptyStr, sB>>),
     FieldArg(-1, <<sC, sA, sB>>),
     FieldArg(5, <<sF, sA>>),
     FieldArg(6, <<sA>>),
     FieldArg(0, <<>>)}

RemoveFilteredPolicy(ptype, fa, items, f) ==
    LET selector == Selector(fa.fieldIndex, fa.fieldValues)
        r == RemoveFilteredPolicyResult(store, containerExists, ptype,
                                        fa.fieldIndex, fa.fieldValues, items, f)
    IN  /\ items \in SeqsOf({d \in Partition(store, ptype) : Selected(d, ptype, selector)})
        /\ store' = r.store
        /\ last' = Call("RemoveFilteredPolicy", r.err, r.calls,
                        [ptype |-> ptype, fieldIndex |-> fa.fieldIndex,
                         fieldValues |-> fa.fieldValues])
        /\ UNCHANGED <<containerExists, filtered, codecVars>>

----------------------------------------------------------------------------
(* The adapter *)

FaultKinds == {"page", "item"}

Next ==
    \/ \E ptype \in PTypeInputs, rule \in RuleInputs, f \in 0..1 :
            AddPolicy(ptype, rule, f)
    \/ \E ptype \in PTypeInputs, rule \in RuleInputs, f \in 0..1 :
            RemovePolicy(ptype, rule, f)
    \/ \E ptype \in PTypeInputs, fa \in FieldArgInputs :
         \E items \in SeqsOf({d \in Partition(store, ptype) :
                                Selected(d, ptype, Selector(fa.fieldIndex, fa.fieldValues))}),
            f \in 0..(2 * MaxStore) :
            /\ f <= NumPages(Len(items)) + Len(items)
            /\ RemoveFilteredPolicy(ptype, fa, items, f)
    \/ \E model \in ModelInputs :
         \E pkeys \in KeyOrders(model, sP), gkeys \in KeyOrders(model, sG),
            f \in 0..(MaxStore + 2) :
            /\ f <= 2 + Len(SectionLines(model, sP, pkeys)) + Len(SectionLines(model, sG, gkeys))
            /\ filtered => f = 0
            /\ SavePolicy(model, pkeys, gkeys, f)
    \/ \E model \in LoadModelInputs, fk \in FaultKinds :
         \E items \in SeqsOf(Partition(store, sP)), f \in 0..MaxStore :
            /\ f <= NumPages(Len(items))
            /\ fk = "item" => f >= 1 /\ Len(items) >= 1
            /\ LoadPolicy(model, items, f, fk)
    \/ \E model \in LoadModelInputs, filter \in FilterInputs, fk \in FaultKinds :
         \E items \in SeqsOf({d \in Partition(store, sP) : V(d, filter.field) = filter.value}),
            f \in 0..MaxStore :
            /\ f <= NumPages(Len(items))
            /\ fk = "item" => f >= 1 /\ Len(items) >= 1
            /\ AssertionPanics(filter) => f = 0 /\ fk = "page"
            /\ LoadFilteredPolicy(model, filter, items, f, fk)

Spec == Init /\ [][Next]_vars

----------------------------------------------------------------------------
(* The codec alone: savePolicyLine, then loadPolicyLine on what it returned *)

\* The longest rule handed to savePolicyLine.
MaxRuleLen == 6

CodecValues == {EmptyStr, sA, sB}
CodecPTypes == {sP, sP2, sG}
CodecRules == UNION {[1..n -> CodecValues] : n \in 0..MaxRuleLen}

\* A model with a policy definition for every policy type of CodecPTypes.
CodecModel ==
    [sec \in {sP, sG} |->
        IF sec = sP THEN [key \in {sP, sP2} |-> <<>>] ELSE [key \in {sG} |-> <<>>]]

CodecInit ==
    /\ store = {}
    /\ containerExists = TRUE
    /\ filtered = FALSE
    /\ last = Call("NewAdapterFromClient", "nil", 0, NoArg)
    /\ cpc = "start"
    /\ cptype \in CodecPTypes
    /\ crule \in CodecRules
    /\ cline = savePolicyLine(EmptyStr, <<>>)
    /\ cmodel = CodecModel

CodecEncode ==
    /\ cpc = "start"
    /\ cline' = savePolicyLine(cptype, crule)
    /\ cpc' = "encoded"
    /\ UNCHANGED <<cptype, crule, cmodel, adapterVars>>

CodecDecode ==
    /\ cpc = "encoded"
    /\ IF loadPolicyLinePanics(cline, cmodel)
       THEN cpc' = "panic" /\ cmodel' = cmodel
       ELSE cpc' = "decoded" /\ cmodel' = loadPolicyLine(cline, cmodel)
    /\ UNCHANGED <<cptype, crule, cline, adapterVars>>

CodecNext == CodecEncode \/ CodecDecode

CodecSpec == CodecInit /\ [][CodecNext]_vars

----------------------------------------------------------------------------
(* Properties of the adapter *)

StoreErrors == {"ErrStore", "ErrUnmarshal"}

\* C1: from every state in which a.filtered is true, SavePolicy returns the
\* filtered-state error, makes no store call, and leaves the container and its
\* documents exactly as they were.
C1_SaveRejectsFiltered ==
    [][(filtered /\ last'.op = "SavePolicy") =>
            /\ last'.err = "ErrFiltered"
            /\ last'.calls = 0
            /\ store' = store
            /\ containerExists' = containerExists]_vars

\* A SavePolicy was rejected for the filtered state while documents were stored.
C1_Witness ==
    /\ last.op = "SavePolicy"
    /\ last.err = "ErrFiltered"
    /\ filtered
    /\ store # {}

\* C2: once full-save is disallowed (a.filtered set, as a successful
\* LoadFilteredPolicy sets it), every step that is not a LoadPolicy returning nil
\* leaves it disallowed, and a SavePolicy step returns the filtered-state error.
C2_DisallowedUntilFullLoad ==
    [][(filtered /\ ~(last'.op = "LoadPolicy" /\ last'.err = "nil")) =>
            /\ filtered'
            /\ last'.op = "SavePolicy" => last'.err = "ErrFiltered"]_vars

RuleSet(model, sec, key) == {model[sec][key][i] : i \in 1..Len(model[sec][key])}

SameRules(m1, m2) ==
    /\ DOMAIN m1 = DOMAIN m2
    /\ \A sec \in DOMAIN m1 :
        /\ DOMAIN m1[sec] = DOMAIN m2[sec]
        /\ \A key \in DOMAIN m1[sec] : RuleSet(m1, sec, key) = RuleSet(m2, sec, key)

\* Every rule of the model is a tuple of at most NumFields strings, none empty.
Contiguous(model) ==
    \A sec \in DOMAIN model : \A key \in DOMAIN model[sec] :
        \A rule \in RuleSet(model, sec, key) :
            /\ Len(rule) <= NumFields
            /\ \A i \in 1..Len(rule) : rule[i] # EmptyStr

\* C4: a LoadPolicy that returns nil, into a fresh model, right after a SavePolicy
\* that returned nil, leaves in the model, for every policy type of sections "p"
\* and "g", exactly the rules that were saved.
C4_LoadAllReproducesSaved ==
    [][(/\ last.op = "SavePolicy"
        /\ last.err = "nil"
        /\ Contiguous(last.arg.model)
        /\ last'.op = "LoadPolicy"
        /\ last'.err = "nil"
        /\ last'.arg.modelIn = FreshModel(last.arg.model)) =>
            SameRules(last'.arg.model, last.arg.model)]_vars

\* The records of the rules of sections "p" and "g" of a model.
Encoded(model) ==
    {savePolicyLine(key, rule) : <<key, rule>> \in
        UNION {{<<key, rule>> : rule \in RuleSet(model, sec, key)} :
               <<sec, key>> \in UNION {{<<sec, key>> : key \in DOMAIN model[sec]} :
                                       sec \in DOMAIN model \cap {sP, sG}}}}

NumRules(model) ==
    Len(SectionLines(model, sP, CHOOSE o \in KeyOrders(model, sP) : TRUE))
        + Len(SectionLines(model, sG, CHOOSE o \in KeyOrders(model, sG) : TRUE))

\* C5: after a SavePolicy that returned nil the container holds the record
\* savePolicyLine(policyType, rule) of every rule of sections "p" and "g" of the
\* model, one per rule, and nothing else.
C5_SaveReplacesAll ==
    (last.op = "SavePolicy" /\ last.err = "nil") =>
        /\ store = Encoded(last.arg.model)
        /\ Cardinality(store) = NumRules(last.arg.model)
        /\ containerExists

\* A SavePolicy of a model with rules in both sections returned nil.
C5_Witness ==
    /\ last.op = "SavePolicy"
    /\ last.err = "nil"
    /\ last.arg.model[sP][sP] # <<>>
    /\ last.arg.model[sG][sG] # <<>>

\* Slot k takes part in the filter: it lies in the window of fieldValues and its
\* value is not "".
Participates(k, fieldIndex, fieldValues) ==
    /\ fieldIndex <= k
    /\ k < fieldIndex + Len(fieldValues)
    /\ fieldValues[k - fieldIndex + 1] # EmptyStr

Matches(doc, ptype, fieldIndex, fieldValues) ==
    /\ doc.PType = ptype
    /\ \A k \in 0..(NumFields - 1) :
        Participates(k, fieldIndex, fieldValues) =>
            V(doc, k) = fieldValues[k - fieldIndex + 1]

\* C6: a RemoveFilteredPolicy that returns nil removes exactly the documents of
\* its policy type whose field vK equals fieldValues[K - fieldIndex] for every
\* slot K that takes part; every other document stays.
C6_RemoveFilteredExact ==
    [][(last'.op = "RemoveFilteredPolicy" /\ last'.err = "nil") =>
            store' = {d \in store :
                        ~Matches(d, last'.arg.ptype, last'.arg.fieldIndex,
                                 last'.arg.fieldValues)}]_vars

\* RemoveFilteredPolicy(0, "a", "", "", "", "", "f") returned nil, removed a
\* document and left another.
C6_Witness ==
    /\ last.op = "RemoveFilteredPolicy"
    /\ last.err = "nil"
    /\ last.calls >= 2
    /\ last.arg.fieldIndex = 0
    /\ Len(last.arg.fieldValues) = NumFields
    /\ store # {}

\* C7: a RemovePolicy(policyType, rule) that returns nil removes no document but
\* the record of that rule.
C7_RemoveUnambiguous ==
    [][(last'.op = "RemovePolicy" /\ last'.err = "nil") =>
            \A d \in store \ store' :
                d = savePolicyLine(last'.arg.ptype, last'.arg.rule)]_vars

\* C8: an AddPolicy of a rule whose record id is already stored, with no store
\* fault, returns nil and leaves the documents as they were.
C8_AddIdempotent ==
    [][(/\ last'.op = "AddPolicy"
        /\ Conflicts(store, savePolicyLine(last'.arg.ptype, last'.arg.rule))
        /\ last'.err # "ErrStore") =>
            (last'.err = "nil" /\ store' = store)]_vars

\* C10: LoadPolicy and LoadFilteredPolicy end by returning nil or an error,
\* never by a panic.
C10_LoadsNeverAbort ==
    last.op \in {"LoadPolicy", "LoadFilteredPolicy"} => last.err # "panic"

Loads == {"LoadPolicy", "LoadFilteredPolicy"}

HasEmptyRule(model) ==
    \E sec \in DOMAIN model : \E key \in DOMAIN model[sec] :
        <<>> \in RuleSet(model, sec, key)

\* C11: a stored record whose v0 is empty contributes no rule: after a load that
\* returns nil into a model that held no empty rule, the model holds no empty
\* rule.
C11_NoEmptyRuleLoaded ==
    (/\ last.op \in Loads
     /\ last.err = "nil"
     /\ ~HasEmptyRule(last.arg.modelIn)) =>
        ~HasEmptyRule(last.arg.model)

\* No two rules of the model get the same record id under one policy type.
NoIdClash(model) ==
    \A d1, d2 \in Encoded(model) : (d1.PType = d2.PType /\ d1.ID = d2.ID) => d1 = d2

\* C13: after a SavePolicy that failed because a store call was failed (the
\* delete of the container, its creation, or an insert), the next SavePolicy of
\* the same model, with no store call failed by the environment, returns nil
\* and leaves exactly the model's records in the container.
C13_RetryRecovers ==
    [][(/\ last.op = "SavePolicy"
        /\ last.err = "ErrStore"
        /\ last.arg.fault >= 1
        /\ NoIdClash(last.arg.model)
        /\ last'.op = "SavePolicy"
        /\ last'.arg.model = last.arg.model
        /\ last'.arg.fault = 0) =>
            /\ last'.err = "nil"
            /\ store' = Encoded(last.arg.model)]_vars

\* C14: a LoadPolicy or LoadFilteredPolicy that returns a store or
\* deserialization error has appended no rule: the model is as it was given,
\* also when earlier pages had been read.
C14_FailedLoadKeepsModel ==
    (last.op \in Loads /\ last.err \in StoreErrors) =>
        last.arg.model = last.arg.modelIn

\* A load failed on a later page, after lines of an earlier page were read.
C14_Witness ==
    /\ last.op \in Loads
    /\ last.err \in StoreErrors
    /\ last.calls >= 2
    /\ last.arg.linesRead >= 1

----------------------------------------------------------------------------
(* Properties of the codec *)

NonEmptyRule(rule) ==
    /\ Len(rule) <= NumFields
    /\ \A i \in 1..Len(rule) : rule[i] # EmptyStr

\* C9: for a tuple of 0 to 6 non-empty strings, loadPolicyLine of
\* savePolicyLine(policyType, tuple) appends that very tuple to the assertion
\* policyType of the section named by the first character of policyType, and
\* to no other.
C9_RoundTrip ==
    (cpc \in {"decoded", "panic"} /\ NonEmptyRule(crule)) =>
        /\ cpc = "decoded"
        /\ \A sec \in DOMAIN cmodel : \A key \in DOMAIN cmodel[sec] :
            cmodel[sec][key] =
                IF sec = SubSeq(cptype, 1, 1) /\ key = cptype THEN <<crule>> ELSE <<>>

\* A tuple of six non-empty strings under "p2" has gone through both steps.
C9_Witness ==
    /\ cpc = "decoded"
    /\ cptype = sP2
    /\ Len(crule) = NumFields
    /\ NonEmptyRule(crule)

\* The number of leading fields of a record that are not "".
PrefixLen(line) ==
    CHOOSE n \in 0..NumFields :
        /\ \A k \in 0..(n - 1) : V(line, k) # EmptyStr
        /\ n = NumFields \/ V(line, n) = EmptyStr

\* The rule loadPolicyLine appended for the record cline.
Decoded == cmodel[SubSeq(cptype, 1, 1)][cptype][1]

\* C12: the tuple loadPolicyLine appends for a record is the longest prefix
\* v0..v(n-1) of fields that are all non-empty; every field after the first
\* empty one is dropped, also when it is not empty.
C12_TruncatesAtFirstGap ==
    cpc = "decoded" =>
        /\ Len(cmodel[SubSeq(cptype, 1, 1)][cptype]) = 1
        /\ Len(Decoded) = PrefixLen(cline)
        /\ \A i \in 1..Len(Decoded) : Decoded[i] = V(cline, i - 1)

\* The record v0 = "a", v1 = "", v2 = "b" has been decoded to ["a"].
C12_Witness ==
    /\ cpc = "decoded"
    /\ cline.V0 = sA
    /\ cline.V1 = EmptyStr
    /\ cline.V2 = sB
    /\ Decoded = <<sA>>

====
